---- MODULE Spec2Model ----
(***************************************************************************)
(* Pyntago: the turn state machine (Game), the three cursors, the event    *)
(* manager's synchronous dispatch, the quadrant rotation and the win       *)
(* detector of src/pyntago/pyntago.py.                                     *)
(*                                                                         *)
(* A Player(name, color) is modelled by its name; Player(None, None), the  *)
(* value winner() returns for a tie, is TiePlayer.  A Position(x, y) is    *)
(* the tuple <<x, y>>.  The board dict is a function whose DOMAIN is the   *)
(* set of occupied positions.  Python's None is None (an integer, where    *)
(* the field otherwise holds a block or a direction), NoPosition (where it *)
(* holds a position) and NoPlayer (where it holds a player, a message or   *)
(* the result of winner()).                                                *)
(***************************************************************************)
EXTENDS Integers, Sequences, FiniteSets, TLC

DIRECTION_UP == 0

DIRECTION_DOWN == 1

DIRECTION_LEFT == 2

DIRECTION_RIGHT == 3

Directions == {DIRECTION_UP, DIRECTION_DOWN, DIRECTION_LEFT, DIRECTION_RIGHT}

None == -1

NoPosition == <<None, None>>

NoPlayer == "None"

TiePlayer == "Player(None, None)"

Position(x, y) == <<x, y>>

STATE_PREPARING == "preparing"

STATE_MOVE == "awaiting move"

STATE_SELECT == "awaiting selection"

STATE_ROTATE == "awaiting rotation"

STATE_FINISHED == "game finished"

STATE_INACTIVE == 0

STATE_ACTIVE == 1

players == <<"White", "Black">>

blocks == 0 .. 3

start_block == 0

start_position == Position(2, 2)

Positions == (0 .. 5) \X (0 .. 5)

PlayerName(p) == IF p = TiePlayer THEN NoPlayer ELSE p

(***************************************************************************)
(* Board topology.                                                         *)
(***************************************************************************)
position_neighbor(position, direction) ==
    CASE direction = DIRECTION_UP /\ position[2] > 0 ->
             Position(position[1], position[2] - 1)
      [] direction = DIRECTION_DOWN /\ position[2] < 5 ->
             Position(position[1], position[2] + 1)
      [] direction = DIRECTION_LEFT /\ position[1] > 0 ->
             Position(position[1] - 1, position[2])
      [] direction = DIRECTION_RIGHT /\ position[1] < 5 ->
             Position(position[1] + 1, position[2])
      [] OTHER -> NoPosition

\* block_neighbor wrapping around from block 1 to block 0 on the right.
block_neighbor_wraps(block, direction) ==
    CASE direction = DIRECTION_UP /\ block = 2 -> 0
      [] direction = DIRECTION_UP /\ block = 3 -> 1
      [] direction = DIRECTION_RIGHT /\ block = 0 -> 1
      [] direction = DIRECTION_RIGHT /\ block = 1 -> 0
      [] direction = DIRECTION_RIGHT /\ block = 2 -> 3
      [] direction = DIRECTION_LEFT /\ block = 1 -> 0
      [] direction = DIRECTION_LEFT /\ block = 3 -> 2
      [] direction = DIRECTION_DOWN /\ block = 0 -> 2
      [] direction = DIRECTION_DOWN /\ block = 1 -> 3
      [] OTHER -> None

block_neighbor(block, direction) ==
    CASE direction = DIRECTION_UP /\ block = 2 -> 0
      [] direction = DIRECTION_UP /\ block = 3 -> 1
      [] direction = DIRECTION_RIGHT /\ block = 0 -> 1
      [] direction = DIRECTION_RIGHT /\ block = 2 -> 3
      [] direction = DIRECTION_LEFT /\ block = 1 -> 0
      [] direction = DIRECTION_LEFT /\ block = 3 -> 2
      [] direction = DIRECTION_DOWN /\ block = 0 -> 2
      [] direction = DIRECTION_DOWN /\ block = 1 -> 3
      [] OTHER -> None

block_for_position(position) ==
    CASE position[1] < 3 /\ position[2] < 3 -> 0
      [] position[1] >= 3 /\ position[2] < 3 -> 1
      [] position[1] < 3 /\ position[2] >= 3 -> 2
      [] position[1] >= 3 /\ position[2] >= 3 -> 3

position_in_block(position, block) ==
    CASE block = 0 -> Position(position[1], position[2])
      [] block = 1 -> Position(position[1] - 3, position[2])
      [] block = 2 -> Position(position[1], position[2] - 3)
      [] block = 3 -> Position(position[1] - 3, position[2] - 3)

(***************************************************************************)
(* rotate(board, block, direction): the centre of the block, the two       *)
(* tables of (source, destination) pairs around it, and the two loops that *)
(* build new_board.  A block outside 0..3 or a direction other than        *)
(* DIRECTION_LEFT / DIRECTION_RIGHT leaves a local unbound in the source   *)
(* (an exception); here the CASE has no arm for it.                        *)
(***************************************************************************)
\* block_center with the centre of block 3 one row too high.
block_center_shifted(block) ==
    CASE block = 0 -> Position(1, 1)
      [] block = 1 -> Position(4, 1)
      [] block = 2 -> Position(1, 4)
      [] block = 3 -> Position(4, 3)

block_center(block) ==
    CASE block = 0 -> Position(1, 1)
      [] block = 1 -> Position(4, 1)
      [] block = 2 -> Position(1, 4)
      [] block = 3 -> Position(4, 4)

\* left_rotation with the four corner pairs turning the other way.
left_rotation_corners_right(x, y) ==
    << <<Position(x, y - 1), Position(x - 1, y)>>,
       <<Position(x - 1, y), Position(x, y + 1)>>,
       <<Position(x, y + 1), Position(x + 1, y)>>,
       <<Position(x + 1, y), Position(x, y - 1)>>,
       <<Position(x - 1, y + 1), Position(x - 1, y - 1)>>,
       <<Position(x - 1, y - 1), Position(x + 1, y - 1)>>,
       <<Position(x + 1, y - 1), Position(x + 1, y + 1)>>,
       <<Position(x + 1, y + 1), Position(x - 1, y + 1)>>,
       <<Position(x, y), Position(x, y)>> >>

left_rotation(x, y) ==
    << <<Position(x, y - 1), Position(x - 1, y)>>,
       <<Position(x - 1, y), Position(x, y + 1)>>,
       <<Position(x, y + 1), Position(x + 1, y)>>,
       <<Position(x + 1, y), Position(x, y - 1)>>,
       <<Position(x - 1, y - 1), Position(x - 1, y + 1)>>,
       <<Position(x - 1, y + 1), Position(x + 1, y + 1)>>,
       <<Position(x + 1, y + 1), Position(x + 1, y - 1)>>,
       <<Position(x + 1, y - 1), Position(x - 1, y - 1)>>,
       <<Position(x, y), Position(x, y)>> >>

\* right_rotation that turns the edges and leaves the corners where they are.
right_rotation_edges_only(x, y) ==
    << <<Position(x, y - 1), Position(x + 1, y)>>,
       <<Position(x + 1, y), Position(x, y + 1)>>,
       <<Position(x, y + 1), Position(x - 1, y)>>,
       <<Position(x - 1, y), Position(x, y - 1)>>,
       <<Position(x - 1, y + 1), Position(x - 1, y + 1)>>,
       <<Position(x - 1, y - 1), Position(x - 1, y - 1)>>,
       <<Position(x + 1, y - 1), Position(x + 1, y - 1)>>,
       <<Position(x + 1, y + 1), Position(x + 1, y + 1)>>,
       <<Position(x, y), Position(x, y)>> >>

\* right_rotation with one destination mistyped: SW goes to NE, not NW.
right_rotation_typo(x, y) ==
    << <<Position(x, y - 1), Position(x + 1, y)>>,
       <<Position(x + 1, y), Position(x, y + 1)>>,
       <<Position(x, y + 1), Position(x - 1, y)>>,
       <<Position(x - 1, y), Position(x, y - 1)>>,
       <<Position(x - 1, y + 1), Position(x + 1, y - 1)>>,
       <<Position(x - 1, y - 1), Position(x + 1, y - 1)>>,
       <<Position(x + 1, y - 1), Position(x + 1, y + 1)>>,
       <<Position(x + 1, y + 1), Position(x - 1, y + 1)>>,
       <<Position(x, y), Position(x, y)>> >>

right_rotation(x, y) ==
    << <<Position(x, y - 1), Position(x + 1, y)>>,
       <<Position(x + 1, y), Position(x, y + 1)>>,
       <<Position(x, y + 1), Position(x - 1, y)>>,
       <<Position(x - 1, y), Position(x, y - 1)>>,
       <<Position(x - 1, y + 1), Position(x - 1, y - 1)>>,
       <<Position(x - 1, y - 1), Position(x + 1, y - 1)>>,
       <<Position(x + 1, y - 1), Position(x + 1, y + 1)>>,
       <<Position(x + 1, y + 1), Position(x - 1, y + 1)>>,
       <<Position(x, y), Position(x, y)>> >>

\* rotation_table handing out the two tables the wrong way round.
rotation_table_swapped(block, direction) ==
    LET c == block_center(block)
    IN  CASE direction = DIRECTION_LEFT -> right_rotation(c[1], c[2])
          [] direction = DIRECTION_RIGHT -> left_rotation(c[1], c[2])

rotation_table(block, direction) ==
    LET c == block_center(block)
    IN  CASE direction = DIRECTION_LEFT -> left_rotation(c[1], c[2])
          [] direction = DIRECTION_RIGHT -> right_rotation(c[1], c[2])

\* rotate without its second loop: the positions outside the block are lost.
rotate_rotated_only(board, block, direction) ==
    LET rotation == rotation_table(block, direction)
        pairs == {rotation[i] : i \in DOMAIN rotation}
        moved == {r \in pairs : r[1] \in DOMAIN board}
    IN  [pos \in {r[2] : r \in moved} |->
            board[(CHOOSE r \in moved : r[2] = pos)[1]]]

\* rotate whose second loop copies every position that the first loop left
\* empty, sources included.
rotate_copy_all(board, block, direction) ==
    LET rotation == rotation_table(block, direction)
        pairs == {rotation[i] : i \in DOMAIN rotation}
        moved == {r \in pairs : r[1] \in DOMAIN board}
        kept == DOMAIN board \ {r[2] : r \in moved}
    IN  [pos \in {r[2] : r \in moved} \cup kept |->
            IF pos \in kept
            THEN board[pos]
            ELSE board[(CHOOSE r \in moved : r[2] = pos)[1]]]

rotate(board, block, direction) ==
    LET rotation == rotation_table(block, direction)
        pairs == {rotation[i] : i \in DOMAIN rotation}
        \* first loop: the pairs whose source is occupied
        moved == {r \in pairs : r[1] \in DOMAIN board}
        \* second loop: positions that occur in no pair
        kept == {pos \in DOMAIN board :
                    ~ \E r \in pairs : pos = r[1] \/ pos = r[2]}
    IN  [pos \in {r[2] : r \in moved} \cup kept |->
            IF pos \in kept
            THEN board[pos]
            ELSE board[(CHOOSE r \in moved : r[2] = pos)[1]]]

(***************************************************************************)
(* winner(board, players) and the three line scans.  A scan keeps count    *)
(* and max_count exactly as the source does: max_count is assigned count   *)
(* on every hit and is left alone on a miss.                               *)
(***************************************************************************)
owned(board, pos, player) == pos \in DOMAIN board /\ board[pos] = player

\* scan whose max_count is reset together with count on a miss.
RECURSIVE scan_forgets(_, _, _, _)
scan_forgets(hits, i, count, max_count) ==
    IF i > Len(hits)
    THEN max_count
    ELSE IF hits[i]
         THEN scan_forgets(hits, i + 1, count + 1, count + 1)
         ELSE scan_forgets(hits, i + 1, 0, 0)

RECURSIVE scan(_, _, _, _)
scan(hits, i, count, max_count) ==
    IF i > Len(hits)
    THEN max_count
    ELSE IF hits[i]
         THEN scan(hits, i + 1, count + 1, count + 1)
         ELSE scan(hits, i + 1, 0, max_count)

\* check_rows satisfied with four in a row.
check_rows_four(board, player) ==
    \E y \in 0 .. 5 :
        scan([i \in 1 .. 6 |-> owned(board, Position(i - 1, y), player)],
             1, 0, 0) >= 4

check_rows(board, player) ==
    \E y \in 0 .. 5 :
        scan([i \in 1 .. 6 |-> owned(board, Position(i - 1, y), player)],
             1, 0, 0) >= 5

check_cols(board, player) ==
    \E x \in 0 .. 5 :
        scan([i \in 1 .. 6 |-> owned(board, Position(x, i - 1), player)],
             1, 0, 0) >= 5

check_diagonals(board, player) ==
    \/ \E y_offset \in -1 .. 1 :
          scan([i \in 1 .. 6 |->
                   LET x == i - 1
                       y == y_offset + x
                   IN  0 <= y /\ y < 6 /\ owned(board, Position(x, y), player)],
               1, 0, 0) >= 5
    \/ \E y_offset \in -1 .. 1 :
          scan([i \in 1 .. 6 |->
                   LET x == i - 1
                       y == y_offset - x + 5
                   IN  0 <= y /\ y < 6 /\ owned(board, Position(x, y), player)],
               1, 0, 0) >= 5

\* has_line without the diagonals.
has_line_no_diagonals(board, player) ==
    check_cols(board, player) \/ check_rows(board, player)

has_line(board, player) ==
    check_cols(board, player) \/ check_rows(board, player)
        \/ check_diagonals(board, player)

\* winner handing the game to the first of two winners.
winner_first_of_two(board, ps) ==
    IF Cardinality(DOMAIN board) = 36
    THEN TiePlayer
    ELSE LET winners == SelectSeq(ps, LAMBDA p : has_line(board, p))
         IN  IF Len(winners) = 2 THEN winners[1]
             ELSE IF Len(winners) = 1 THEN winners[1]
             ELSE NoPlayer

\* winner without the full-board test.
winner_no_full_check(board, ps) ==
    LET winners == SelectSeq(ps, LAMBDA p : has_line(board, p))
    IN  IF Len(winners) = 2 THEN TiePlayer
        ELSE IF Len(winners) = 1 THEN winners[1]
        ELSE NoPlayer

winner(board, ps) ==
    IF Cardinality(DOMAIN board) = 36
    THEN TiePlayer
    ELSE LET winners == SelectSeq(ps, LAMBDA p : has_line(board, p))
         IN  IF Len(winners) = 2 THEN TiePlayer
             ELSE IF Len(winners) = 1 THEN winners[1]
             ELSE NoPlayer

(***************************************************************************)
(* State.  The fields of Game and of its three cursors, and posted: the    *)
(* tail of post's debug trace, namely the names of the events handed to    *)
(* EventManager.post, in order, by the last dispatch that traced any       *)
(* (post does not trace a CycleEvent, so a tick that starts nothing adds   *)
(* nothing to the trace).  max_active is the largest number of cursors     *)
(* that were active together at any call of post during that dispatch;     *)
(* every assignment to a cursor's state is followed by a call of post.     *)
(* r_orig, r_board and r_trace belong to the rotate() harness below,       *)
(* w_result to the winner() harness.                                       *)
(***************************************************************************)
VARIABLES state, current_player, block_cursor, position_cursor,
          direction_cursor, message, move_count, board, posted, max_active,
          r_orig, r_board, r_trace, w_result

game_vars == <<state, current_player, block_cursor, position_cursor,
               direction_cursor, message, move_count, board, posted,
               max_active>>

rotate_vars == <<r_orig, r_board, r_trace, w_result>>

vars == <<state, current_player, block_cursor, position_cursor,
          direction_cursor, message, move_count, board, posted, max_active,
          r_orig, r_board, r_trace, w_result>>

EmptyBoard == [pos \in {} |-> NoPlayer]

\* w_result before winner() has been called on r_board.
Unjudged == "unjudged"

\* The objects as one record, so that a handler is a function of it.
Game ==
    [state |-> state, current_player |-> current_player,
     block_cursor |-> block_cursor, position_cursor |-> position_cursor,
     direction_cursor |-> direction_cursor, message |-> message,
     move_count |-> move_count, board |-> board, posted |-> posted,
     max_active |-> max_active]

Event(type, direction) == [type |-> type, direction |-> direction]

\* other_player taking the first of the players instead of the first other one.
other_player_first(player) == players[1]

other_player(player) == IF player = players[1] THEN players[2] ELSE players[1]

RECURSIVE post(_, _)

(***************************************************************************)
(* BlockCursor                                                             *)
(***************************************************************************)
\* BlockCursor.place that goes to start_block only the first time.
BlockCursor_place_keeps_block(g, player) ==
    IF g.block_cursor.state = STATE_ACTIVE
    THEN g
    ELSE post([g EXCEPT !.block_cursor =
                   [block |-> IF g.block_cursor.block = None
                              THEN start_block
                              ELSE g.block_cursor.block,
                    player |-> player, state |-> STATE_ACTIVE]],
              Event("BlockCursorPlaceEvent", None))

BlockCursor_place(g, player) ==
    IF g.block_cursor.state = STATE_ACTIVE
    THEN g
    ELSE post([g EXCEPT !.block_cursor =
                   [block |-> start_block, player |-> player,
                    state |-> STATE_ACTIVE]],
              Event("BlockCursorPlaceEvent", None))

\* BlockCursor.hide that hides an active cursor.
BlockCursor_hide_hides(g) ==
    post([g EXCEPT !.block_cursor.state = STATE_INACTIVE],
         Event("BlockCursorHideEvent", None))

BlockCursor_hide(g) ==
    IF g.block_cursor.state = STATE_ACTIVE
    THEN g
    ELSE post([g EXCEPT !.block_cursor.state = STATE_INACTIVE],
              Event("BlockCursorHideEvent", None))

BlockCursor_move(g, direction) ==
    IF g.block_cursor.state = STATE_INACTIVE
    THEN g
    ELSE LET neighbor == block_neighbor(g.block_cursor.block, direction)
         IN  IF neighbor # None
             THEN post([g EXCEPT !.block_cursor.block = neighbor],
                       Event("BlockCursorMoveEvent", None))
             ELSE g

\* BlockCursor.select that posts its event and stays active.
BlockCursor_select_stays_active(g) ==
    IF g.block_cursor.state = STATE_INACTIVE
    THEN g
    ELSE post(g, Event("BlockCursorSelectEvent", None))

\* BlockCursor.select that posts its event first and becomes inactive after.
BlockCursor_select_late(g) ==
    IF g.block_cursor.state = STATE_INACTIVE
    THEN g
    ELSE [post(g, Event("BlockCursorSelectEvent", None)) EXCEPT
             !.block_cursor.state = STATE_INACTIVE]

BlockCursor_select(g) ==
    IF g.block_cursor.state = STATE_INACTIVE
    THEN g
    ELSE post([g EXCEPT !.block_cursor.state = STATE_INACTIVE],
              Event("BlockCursorSelectEvent", None))

BlockCursor_notify(g, event) ==
    CASE event.type = "GameBlockSelectionUIEvent" ->
             BlockCursor_place(g, g.current_player)
      [] event.type = "GameBlockRotationUIEvent" -> BlockCursor_hide(g)
      [] event.type = "RequestBlockCursorMoveEvent" ->
             BlockCursor_move(g, event.direction)
      [] event.type = "RequestBlockCursorSelectEvent" -> BlockCursor_select(g)
      [] OTHER -> g

(***************************************************************************)
(* PositionCursor                                                          *)
(***************************************************************************)
PositionCursor_place(g, player) ==
    IF g.position_cursor.state = STATE_ACTIVE
    THEN g
    ELSE post([g EXCEPT !.position_cursor =
                   [position |-> start_position, player |-> player,
                    state |-> STATE_ACTIVE]],
              Event("PositionCursorPlaceEvent", None))

PositionCursor_hide(g) ==
    IF g.position_cursor.state = STATE_ACTIVE
    THEN g
    ELSE post([g EXCEPT !.position_cursor.state = STATE_INACTIVE],
              Event("PositionCursorHideEvent", None))

PositionCursor_move(g, direction) ==
    IF g.position_cursor.state = STATE_INACTIVE
    THEN g
    ELSE LET new_pos == position_neighbor(g.position_cursor.position, direction)
         IN  IF new_pos # NoPosition
             THEN post([g EXCEPT !.position_cursor.position = new_pos],
                       Event("PositionCursorMoveEvent", None))
             ELSE g

\* PositionCursor.select that posts its event and stays active.
PositionCursor_select_stays_active(g) ==
    IF g.position_cursor.state = STATE_INACTIVE
    THEN g
    ELSE post(g, Event("SelectPositionCursorEvent", None))

PositionCursor_select(g) ==
    IF g.position_cursor.state = STATE_INACTIVE
    THEN g
    ELSE post([g EXCEPT !.position_cursor.state = STATE_INACTIVE],
              Event("SelectPositionCursorEvent", None))

PositionCursor_notify(g, event) ==
    CASE event.type = "GameMoveUIEvent" ->
             PositionCursor_place(g, g.current_player)
      [] event.type = "GameBlockSelectionUIEvent" -> PositionCursor_hide(g)
      [] event.type = "RequestPositionCursorMoveEvent" ->
             PositionCursor_move(g, event.direction)
      [] event.type = "RequestPositionCursorSelectEvent" ->
             PositionCursor_select(g)
      [] OTHER -> g

(***************************************************************************)
(* DirectionCursor                                                         *)
(***************************************************************************)
\* DirectionCursor.place that leaves the direction of the last turn.
DirectionCursor_place_keeps_direction(g, player) ==
    IF g.direction_cursor.state = STATE_ACTIVE
    THEN g
    ELSE post([g EXCEPT !.direction_cursor.player = player,
                        !.direction_cursor.state = STATE_ACTIVE],
              Event("DirectionCursorPlaceEvent", None))

DirectionCursor_place(g, player) ==
    IF g.direction_cursor.state = STATE_ACTIVE
    THEN g
    ELSE post([g EXCEPT !.direction_cursor =
                   [direction |-> None, player |-> player,
                    state |-> STATE_ACTIVE]],
              Event("DirectionCursorPlaceEvent", None))

DirectionCursor_hide(g) ==
    IF g.direction_cursor.state = STATE_ACTIVE
    THEN g
    ELSE post([g EXCEPT !.direction_cursor.state = STATE_INACTIVE],
              Event("DirectionCursorHideEvent", None))

\* DirectionCursor.move that records whatever direction it is given.
DirectionCursor_move_any(g, direction) ==
    IF g.direction_cursor.state = STATE_INACTIVE
    THEN g
    ELSE post([g EXCEPT !.direction_cursor.direction = direction],
              Event("DirectionCursorMoveEvent", None))

DirectionCursor_move(g, direction) ==
    IF g.direction_cursor.state = STATE_INACTIVE
    THEN g
    ELSE post(IF direction \in {DIRECTION_RIGHT, DIRECTION_LEFT}
              THEN [g EXCEPT !.direction_cursor.direction = direction]
              ELSE g,
              Event("DirectionCursorMoveEvent", None))

DirectionCursor_select(g) ==
    IF g.direction_cursor.state = STATE_INACTIVE
    THEN g
    ELSE IF g.direction_cursor.direction \notin {DIRECTION_LEFT, DIRECTION_RIGHT}
         THEN g
         ELSE post([g EXCEPT !.direction_cursor.state = STATE_INACTIVE],
                   Event("DirectionCursorSelectEvent", None))

DirectionCursor_notify(g, event) ==
    CASE event.type = "GameBlockRotationUIEvent" ->
             DirectionCursor_place(g, g.current_player)
      [] event.type = "GameMoveUIEvent" -> DirectionCursor_hide(g)
      [] event.type = "RequestDirectionCursorMoveEvent" ->
             DirectionCursor_move(g, event.direction)
      [] event.type = "RequestDirectionCursorSelectEvent" ->
             DirectionCursor_select(g)
      [] OTHER -> g

(***************************************************************************)
(* Game                                                                    *)
(***************************************************************************)
update_message(g, msg) ==
    post([g EXCEPT !.message =
              IF msg = NoPlayer
              THEN g.current_player \o "'s turn, " \o g.state
              ELSE msg],
         Event("GameMessageUpdateEvent", None))

\* start without the BoardBuiltEvent.
start_silent(g) ==
    LET g2 == post([g EXCEPT !.state = STATE_MOVE],
                   Event("GameMoveUIEvent", None))
    IN  update_message(g2, NoPlayer)

start(g) ==
    LET g1 == post(g, Event("BoardBuiltEvent", None))
        g2 == post([g1 EXCEPT !.state = STATE_MOVE],
                   Event("GameMoveUIEvent", None))
    IN  update_message(g2, NoPlayer)

\* check_winner's return value, and the state it leaves behind.
check_winner_result(g) == winner(g.board, players) # NoPlayer

\* check_winner leaving the phase as it is when winner() reports a tie.
check_winner_plays_on_tie(g) ==
    LET wins == winner(g.board, players)
    IN  IF wins # NoPlayer
        THEN IF PlayerName(wins) = NoPlayer
             THEN g
             ELSE update_message([g EXCEPT !.state = STATE_FINISHED],
                                 PlayerName(wins) \o " wins!")
        ELSE g

check_winner(g) ==
    LET wins == winner(g.board, players)
    IN  IF wins # NoPlayer
        THEN IF PlayerName(wins) = NoPlayer
             THEN update_message([g EXCEPT !.state = STATE_FINISHED],
                                 players[1] \o " - " \o players[2] \o " tie!")
             ELSE update_message([g EXCEPT !.state = STATE_FINISHED],
                                 PlayerName(wins) \o " wins!")
        ELSE g

set_item(b, pos, player) ==
    [p \in DOMAIN b \cup {pos} |-> IF p = pos THEN player ELSE b[p]]

\* move_finished without the test for an occupied position.
move_finished_no_test(g) ==
    LET g1 == [g EXCEPT
                  !.state = STATE_SELECT,
                  !.board = set_item(g.board, g.position_cursor.position,
                                     g.current_player)]
        g2 == post(g1, Event("GameBlockSelectionUIEvent", None))
    IN  IF ~ check_winner_result(g2)
        THEN update_message(check_winner(g2), NoPlayer)
        ELSE post(check_winner(g2), Event("GameFinishedUIEvent", None))

\* move_finished handing the select on to the block cursor it has just woken.
move_finished_chains(g) ==
    IF g.position_cursor.position \in DOMAIN g.board
    THEN post(update_message(g, "Invalid move"),
              Event("GameMoveUIEvent", None))
    ELSE LET g1 == [g EXCEPT
                       !.state = STATE_SELECT,
                       !.board = set_item(g.board, g.position_cursor.position,
                                          g.current_player)]
             g2 == post(g1, Event("GameBlockSelectionUIEvent", None))
         IN  IF ~ check_winner_result(g2)
             THEN post(update_message(check_winner(g2), NoPlayer),
                       Event("RequestBlockCursorSelectEvent", None))
             ELSE post(check_winner(g2), Event("GameFinishedUIEvent", None))

\* move_finished putting the marker of the player who is not to move.
move_finished_other_marker(g) ==
    IF g.position_cursor.position \in DOMAIN g.board
    THEN post(update_message(g, "Invalid move"),
              Event("GameMoveUIEvent", None))
    ELSE LET g1 == [g EXCEPT
                       !.state = STATE_SELECT,
                       !.board = set_item(g.board, g.position_cursor.position,
                                          other_player(g.current_player))]
             g2 == post(g1, Event("GameBlockSelectionUIEvent", None))
         IN  IF ~ check_winner_result(g2)
             THEN update_message(check_winner(g2), NoPlayer)
             ELSE post(check_winner(g2), Event("GameFinishedUIEvent", None))

move_finished(g) ==
    IF g.position_cursor.position \in DOMAIN g.board
    THEN post(update_message(g, "Invalid move"),
              Event("GameMoveUIEvent", None))
    ELSE LET g1 == [g EXCEPT
                       !.state = STATE_SELECT,
                       !.board = set_item(g.board, g.position_cursor.position,
                                          g.current_player)]
             g2 == post(g1, Event("GameBlockSelectionUIEvent", None))
         IN  IF ~ check_winner_result(g2)
             THEN update_message(check_winner(g2), NoPlayer)
             ELSE post(check_winner(g2), Event("GameFinishedUIEvent", None))

\* selection_finished going back to the move phase.
selection_finished_to_move(g) ==
    update_message(post([g EXCEPT !.state = STATE_MOVE],
                        Event("GameBlockRotationUIEvent", None)),
                   NoPlayer)

selection_finished(g) ==
    update_message(post([g EXCEPT !.state = STATE_ROTATE],
                        Event("GameBlockRotationUIEvent", None)),
                   NoPlayer)

\* rotation_finished without the call of check_winner.
rotation_finished_no_check(g) ==
    LET new_board == rotate(g.board, g.block_cursor.block,
                            g.direction_cursor.direction)
        g1 == [g EXCEPT !.state = STATE_MOVE, !.board = new_board]
        g2 == [g1 EXCEPT
                  !.current_player = other_player(g1.current_player),
                  !.move_count = g1.move_count + 1]
    IN  update_message(post(g2, Event("GameMoveUIEvent", None)), NoPlayer)

\* rotation_finished calling rotate without the direction, which then takes
\* its default, DIRECTION_LEFT.
rotation_finished_default_direction(g) ==
    LET new_board == rotate(g.board, g.block_cursor.block, DIRECTION_LEFT)
        g1 == [g EXCEPT !.state = STATE_MOVE, !.board = new_board]
    IN  IF ~ check_winner_result(g1)
        THEN LET g2 == [check_winner(g1) EXCEPT
                           !.current_player = other_player(g1.current_player),
                           !.move_count = g1.move_count + 1]
             IN  update_message(post(g2, Event("GameMoveUIEvent", None)),
                                NoPlayer)
        ELSE post(check_winner(g1), Event("GameFinishedUIEvent", None))

rotation_finished(g) ==
    LET new_board == rotate(g.board, g.block_cursor.block,
                            g.direction_cursor.direction)
        g1 == [g EXCEPT !.state = STATE_MOVE, !.board = new_board]
    IN  IF ~ check_winner_result(g1)
        THEN LET g2 == [check_winner(g1) EXCEPT
                           !.current_player = other_player(g1.current_player),
                           !.move_count = g1.move_count + 1]
             IN  update_message(post(g2, Event("GameMoveUIEvent", None)),
                                NoPlayer)
        ELSE post(check_winner(g1), Event("GameFinishedUIEvent", None))

\* Game.notify routing a move request to the block cursor in every state
\* that is neither the move nor the rotation phase.
Game_notify_else_block(g, event) ==
    CASE event.type = "CycleEvent" ->
             IF g.state = STATE_PREPARING THEN start(g) ELSE g
      [] event.type = "SelectPositionCursorEvent" ->
             IF g.state = STATE_MOVE THEN move_finished(g) ELSE g
      [] event.type = "BlockCursorSelectEvent" ->
             IF g.state = STATE_SELECT THEN selection_finished(g) ELSE g
      [] event.type = "DirectionCursorSelectEvent" ->
             IF g.state = STATE_ROTATE THEN rotation_finished(g) ELSE g
      [] event.type = "RequestMoveEvent" ->
             IF g.state = STATE_MOVE
             THEN post(g, Event("RequestPositionCursorMoveEvent", event.direction))
             ELSE IF g.state = STATE_ROTATE
             THEN post(g, Event("RequestDirectionCursorMoveEvent", event.direction))
             ELSE post(g, Event("RequestBlockCursorMoveEvent", event.direction))
      [] event.type = "RequestSelectEvent" ->
             IF g.state = STATE_MOVE
             THEN post(g, Event("RequestPositionCursorSelectEvent", None))
             ELSE IF g.state = STATE_SELECT
             THEN post(g, Event("RequestBlockCursorSelectEvent", None))
             ELSE IF g.state = STATE_ROTATE
             THEN post(g, Event("RequestDirectionCursorSelectEvent", None))
             ELSE g
      [] OTHER -> g

\* Game.notify handing a move request of the move phase to the block cursor.
Game_notify_move_to_block(g, event) ==
    CASE event.type = "CycleEvent" ->
             IF g.state = STATE_PREPARING THEN start(g) ELSE g
      [] event.type = "SelectPositionCursorEvent" ->
             IF g.state = STATE_MOVE THEN move_finished(g) ELSE g
      [] event.type = "BlockCursorSelectEvent" ->
             IF g.state = STATE_SELECT THEN selection_finished(g) ELSE g
      [] event.type = "DirectionCursorSelectEvent" ->
             IF g.state = STATE_ROTATE THEN rotation_finished(g) ELSE g
      [] event.type = "RequestMoveEvent" ->
             IF g.state = STATE_MOVE
             THEN post(g, Event("RequestBlockCursorMoveEvent", event.direction))
             ELSE IF g.state = STATE_SELECT
             THEN post(g, Event("RequestBlockCursorMoveEvent", event.direction))
             ELSE IF g.state = STATE_ROTATE
             THEN post(g, Event("RequestDirectionCursorMoveEvent", event.direction))
             ELSE g
      [] event.type = "RequestSelectEvent" ->
             IF g.state = STATE_MOVE
             THEN post(g, Event("RequestPositionCursorSelectEvent", None))
             ELSE IF g.state = STATE_SELECT
             THEN post(g, Event("RequestBlockCursorSelectEvent", None))
             ELSE IF g.state = STATE_ROTATE
             THEN post(g, Event("RequestDirectionCursorSelectEvent", None))
             ELSE g
      [] OTHER -> g

Game_notify(g, event) ==
    CASE event.type = "CycleEvent" ->
             IF g.state = STATE_PREPARING THEN start(g) ELSE g
      [] event.type = "SelectPositionCursorEvent" ->
             IF g.state = STATE_MOVE THEN move_finished(g) ELSE g
      [] event.type = "BlockCursorSelectEvent" ->
             IF g.state = STATE_SELECT THEN selection_finished(g) ELSE g
      [] event.type = "DirectionCursorSelectEvent" ->
             IF g.state = STATE_ROTATE THEN rotation_finished(g) ELSE g
      [] event.type = "RequestMoveEvent" ->
             IF g.state = STATE_MOVE
             THEN post(g, Event("RequestPositionCursorMoveEvent", event.direction))
             ELSE IF g.state = STATE_SELECT
             THEN post(g, Event("RequestBlockCursorMoveEvent", event.direction))
             ELSE IF g.state = STATE_ROTATE
             THEN post(g, Event("RequestDirectionCursorMoveEvent", event.direction))
             ELSE g
      [] event.type = "RequestSelectEvent" ->
             IF g.state = STATE_MOVE
             THEN post(g, Event("RequestPositionCursorSelectEvent", None))
             ELSE IF g.state = STATE_SELECT
             THEN post(g, Event("RequestBlockCursorSelectEvent", None))
             ELSE IF g.state = STATE_ROTATE
             THEN post(g, Event("RequestDirectionCursorSelectEvent", None))
             ELSE g
      [] OTHER -> g

(***************************************************************************)
(* EventManager.post: the debug trace, then every listener's notify in     *)
(* turn, each running to completion (with the posts it makes itself)       *)
(* before the next.  The listeners are visited in the order in which they  *)
(* registered: the Game (which registers before it builds its cursors),    *)
(* the block cursor, the position cursor, the direction cursor.  The       *)
(* keyboard, cycle and view listeners hold no state of the core.           *)
(***************************************************************************)
debug(g, event) ==
    IF event.type = "CycleEvent"
    THEN g
    ELSE [g EXCEPT !.posted = Append(@, event.type)]

\* The number of cursors whose state is STATE_ACTIVE.
active_cursors(g) ==
    Cardinality({c \in {<<"block", g.block_cursor.state>>,
                        <<"position", g.position_cursor.state>>,
                        <<"direction", g.direction_cursor.state>>} :
                    c[2] = STATE_ACTIVE})

observe(g) ==
    IF active_cursors(g) > g.max_active
    THEN [g EXCEPT !.max_active = active_cursors(g)]
    ELSE g

post(g, event) ==
    DirectionCursor_notify(
        PositionCursor_notify(
            BlockCursor_notify(
                Game_notify(observe(debug(g, event)), event),
                event),
            event),
        event)

(***************************************************************************)
(* Bounds of the exploration.  A game is followed for MaxMoves turns.      *)
(* Each player steers the cell cursor inside a lane: White along row 2,    *)
(* Black from the start cell up into row 1.  Block 3 holds no lane cell,   *)
(* so turning it leaves the board as it is.  Until the last FreeTurns      *)
(* turns (the opening) the players turn block 3 to the left; after that    *)
(* they turn one of RotBlocks in either direction.  The rotate() harness   *)
(* draws the boards of at most MaxStones markers.                          *)
(***************************************************************************)
MaxMoves == 10

FreeTurns == 3

MaxStones == 1

Lane(player) ==
    IF player = players[1]
    THEN {pos \in Positions : pos[2] = 2 /\ pos[1] >= 1}
    ELSE {pos \in Positions : pos[2] = 1 /\ pos[1] >= 1} \cup {start_position}

RotBlocks == {1, 3}

IdleBlocks == {3}

(***************************************************************************)
(* The game: Init is the state Game.__init__ leaves; one action per input  *)
(* event of the turn machine, each the complete synchronous dispatch.      *)
(***************************************************************************)
InitGame ==
    /\ state = STATE_PREPARING
    /\ current_player = players[1]
    /\ block_cursor = [block |-> None, player |-> NoPlayer,
                       state |-> STATE_INACTIVE]
    /\ position_cursor = [position |-> NoPosition, player |-> NoPlayer,
                          state |-> STATE_INACTIVE]
    /\ direction_cursor = [direction |-> None, player |-> NoPlayer,
                           state |-> STATE_INACTIVE]
    /\ message = NoPlayer
    /\ move_count = 0
    /\ board = EmptyBoard
    /\ posted = <<>>
    /\ max_active = 0

Dispatch(event) ==
    \E g \in {post([Game EXCEPT !.posted = <<>>, !.max_active = 0], event)} :
        /\ state' = g.state
        /\ current_player' = g.current_player
        /\ block_cursor' = g.block_cursor
        /\ position_cursor' = g.position_cursor
        /\ direction_cursor' = g.direction_cursor
        /\ message' = g.message
        /\ move_count' = g.move_count
        /\ board' = g.board
        /\ posted' = IF g.posted = <<>> THEN posted ELSE g.posted
        /\ max_active' = IF g.posted = <<>> THEN max_active ELSE g.max_active
        /\ UNCHANGED rotate_vars

Tick == Dispatch(Event("CycleEvent", None))

Opening == move_count < MaxMoves - FreeTurns

RequestMove(d) ==
    /\ state = STATE_MOVE =>
          LET n == position_neighbor(position_cursor.position, d)
          IN  n = NoPosition \/ n \in Lane(current_player)
    /\ (state = STATE_ROTATE /\ Opening) => d = DIRECTION_LEFT
    /\ Dispatch(Event("RequestMoveEvent", d))

RequestSelect ==
    /\ state = STATE_MOVE => move_count < MaxMoves
    /\ state = STATE_SELECT =>
          block_cursor.block \in (IF Opening THEN IdleBlocks ELSE RotBlocks)
    /\ Dispatch(Event("RequestSelectEvent", None))

Next ==
    \/ Tick
    \/ \E d \in Directions : RequestMove(d)
    \/ RequestSelect

Init ==
    /\ InitGame
    /\ r_orig = EmptyBoard
    /\ r_board = EmptyBoard
    /\ r_trace = <<>>
    /\ w_result = Unjudged

Spec == Init /\ [][Next]_vars

(***************************************************************************)
(* The end of a long game.  The same turn machine, played from the state   *)
(* Game.__init__ leaves: for the first 36 - FreeCells turns the players    *)
(* press the keys of a recorded game (the cell, the block and the          *)
(* direction of each turn, none of them completing a line), steering each  *)
(* cursor towards its goal; from then on every key is pressed in every     *)
(* state, so that the last FreeCells placements, the rotations after them, *)
(* the full board and every way of ending are explored.                    *)
(***************************************************************************)
FreeCells == 2

Plan ==
    <<
       <<Position(2, 4), 1, DIRECTION_LEFT>>, <<Position(4, 4), 2, DIRECTION_RIGHT>>,
       <<Position(0, 0), 1, DIRECTION_RIGHT>>, <<Position(1, 1), 0, DIRECTION_LEFT>>,
       <<Position(3, 3), 2, DIRECTION_LEFT>>, <<Position(5, 1), 0, DIRECTION_RIGHT>>,
       <<Position(5, 5), 1, DIRECTION_RIGHT>>, <<Position(3, 4), 1, DIRECTION_RIGHT>>,
       <<Position(5, 0), 2, DIRECTION_LEFT>>, <<Position(4, 0), 1, DIRECTION_LEFT>>,
       <<Position(2, 1), 2, DIRECTION_LEFT>>, <<Position(3, 2), 2, DIRECTION_LEFT>>,
       <<Position(2, 0), 0, DIRECTION_LEFT>>, <<Position(0, 1), 0, DIRECTION_LEFT>>,
       <<Position(4, 3), 2, DIRECTION_LEFT>>, <<Position(0, 3), 0, DIRECTION_LEFT>>,
       <<Position(5, 0), 0, DIRECTION_RIGHT>>, <<Position(4, 1), 3, DIRECTION_LEFT>>,
       <<Position(2, 1), 0, DIRECTION_RIGHT>>, <<Position(0, 5), 0, DIRECTION_RIGHT>>,
       <<Position(1, 5), 0, DIRECTION_LEFT>>, <<Position(2, 2), 0, DIRECTION_LEFT>>,
       <<Position(0, 4), 3, DIRECTION_RIGHT>>, <<Position(5, 2), 2, DIRECTION_LEFT>>,
       <<Position(0, 0), 0, DIRECTION_LEFT>>, <<Position(5, 3), 2, DIRECTION_LEFT>>,
       <<Position(5, 4), 1, DIRECTION_LEFT>>, <<Position(4, 5), 0, DIRECTION_LEFT>>,
       <<Position(4, 0), 1, DIRECTION_LEFT>>, <<Position(3, 5), 3, DIRECTION_LEFT>>,
       <<Position(1, 2), 2, DIRECTION_RIGHT>>, <<Position(0, 4), 3, DIRECTION_LEFT>>,
       <<Position(1, 4), 3, DIRECTION_LEFT>>, <<Position(0, 3), 1, DIRECTION_RIGHT>>,
       <<Position(3, 1), 3, DIRECTION_LEFT>>
    >>

PlanTurns == 36 - FreeCells

Scripted ==
    /\ state \in {STATE_MOVE, STATE_SELECT, STATE_ROTATE}
    /\ move_count < PlanTurns

Goal == Plan[move_count + 1]

Apart(a, b) == IF a = b THEN 0 ELSE 1

Steps(pos, target) ==
    (IF pos[1] > target[1] THEN pos[1] - target[1] ELSE target[1] - pos[1])
  + (IF pos[2] > target[2] THEN pos[2] - target[2] ELSE target[2] - pos[2])

BlockSteps(q, target) ==
    Apart(q % 2, target % 2) + Apart(q \div 2, target \div 2)

EndgameMove(d) ==
    /\ Scripted =>
          CASE state = STATE_MOVE ->
                   LET n == position_neighbor(position_cursor.position, d)
                   IN  /\ n # NoPosition
                       /\ Steps(n, Goal[1])
                              < Steps(position_cursor.position, Goal[1])
            [] state = STATE_SELECT ->
                   LET n == block_neighbor(block_cursor.block, d)
                   IN  /\ n # None
                       /\ BlockSteps(n, Goal[2])
                              < BlockSteps(block_cursor.block, Goal[2])
            [] state = STATE_ROTATE ->
                   /\ d = Goal[3]
                   /\ direction_cursor.direction # d
    /\ Dispatch(Event("RequestMoveEvent", d))

EndgameSelect ==
    /\ Scripted =>
          CASE state = STATE_MOVE -> position_cursor.position = Goal[1]
            [] state = STATE_SELECT -> block_cursor.block = Goal[2]
            [] state = STATE_ROTATE -> direction_cursor.direction = Goal[3]
    /\ Dispatch(Event("RequestSelectEvent", None))

NextEndgame ==
    \/ Tick
    \/ \E d \in Directions : EndgameMove(d)
    \/ EndgameSelect

SpecEndgame == Init /\ [][NextEndgame]_vars

(***************************************************************************)
(* CycleController.run posts a CycleEvent on every pass of its loop for    *)
(* as long as the program runs, so the tick that starts the game is not    *)
(* put off for ever.  Nothing in the code makes a player press a key.      *)
(***************************************************************************)
LiveEndgame == SpecEndgame /\ WF_vars(Tick)

(***************************************************************************)
(* rotate() on its own, as the unit tests drive it: a board is drawn, then *)
(* rotate is applied along one of four programs:  four quarter-turns of    *)
(* one block in one direction, one quarter-turn and its opposite, or every *)
(* block turned right in turn and then every block turned left in turn,    *)
(* or every block turned two notches in one direction.                     *)
(* r_trace lists the <<block, direction>> pairs applied so far to r_orig,  *)
(* r_board is the result.                                                  *)
(***************************************************************************)
RotateDirections == {DIRECTION_LEFT, DIRECTION_RIGHT}

opposite(direction) ==
    IF direction = DIRECTION_LEFT THEN DIRECTION_RIGHT ELSE DIRECTION_LEFT

RECURSIVE Boards(_)
Boards(n) ==
    IF n = 0
    THEN {EmptyBoard}
    ELSE LET smaller == Boards(n - 1)
         IN  smaller \cup
             {set_item(b, pos, p) :
                 b \in smaller, pos \in Positions, p \in {players[1], players[2]}}

Four(q, d) == <<<<q, d>>, <<q, d>>, <<q, d>>, <<q, d>>>>

Inverse(q, d) == <<<<q, d>>, <<q, opposite(d)>>>>

AllBlocksAndBack ==
    <<<<0, DIRECTION_RIGHT>>, <<1, DIRECTION_RIGHT>>,
      <<2, DIRECTION_RIGHT>>, <<3, DIRECTION_RIGHT>>,
      <<0, DIRECTION_LEFT>>, <<1, DIRECTION_LEFT>>,
      <<2, DIRECTION_LEFT>>, <<3, DIRECTION_LEFT>>>>

\* Every block turned two notches in direction d, block after block.
TwoNotchesEach(d) ==
    <<<<0, d>>, <<0, d>>, <<1, d>>, <<1, d>>,
      <<2, d>>, <<2, d>>, <<3, d>>, <<3, d>>>>

Programs ==
    {Four(q, d) : q \in blocks, d \in RotateDirections}
        \cup {Inverse(q, d) : q \in blocks, d \in RotateDirections}
        \cup {AllBlocksAndBack}
        \cup {TwoNotchesEach(d) : d \in RotateDirections}

\* The board after the calls of rotate that program lists.
RECURSIVE Run(_, _)
Run(b, program) ==
    IF program = <<>>
    THEN b
    ELSE Run(rotate(b, Head(program)[1], Head(program)[2]), Tail(program))

IsPrefix(t, p) == Len(t) <= Len(p) /\ \A i \in 1 .. Len(t) : t[i] = p[i]

\* The fixture of the unit tests' BoardWith4Corners: the corners, players
\* alternating in the order (0,0), (5,5), (0,5), (5,0).
corners == <<Position(0, 0), Position(5, 5), Position(0, 5), Position(5, 0)>>

corners_board ==
    [pos \in {corners[i] : i \in 1 .. 4} |->
        LET i == CHOOSE j \in 1 .. 4 : corners[j] = pos
        IN  players[((i - 1) % 2) + 1]]

\* The fixtures of TwoVerticalStripeBoards, TwoHorizontalStripeBoards and
\* TwoDiagonalStripeBoards.
vertical_stripes_board ==
    [pos \in {Position(x, y) : x \in 0 .. 1, y \in 0 .. 5} |->
        players[pos[1] + 1]]

horizontal_stripes_board ==
    [pos \in {Position(x, y) : x \in 0 .. 5, y \in 0 .. 1} |->
        players[pos[2] + 1]]

diagonal_stripes_board ==
    [pos \in {Position(x, x) : x \in 0 .. 5}
                \cup {Position(x + 1, x) : x \in 0 .. 4} |->
        IF pos[1] = pos[2] THEN players[1] ELSE players[2]]

Fixtures ==
    {corners_board, vertical_stripes_board, horizontal_stripes_board,
     diagonal_stripes_board}

InitRotate ==
    /\ InitGame
    /\ r_orig \in Boards(MaxStones) \cup Fixtures
    /\ r_board = r_orig
    /\ r_trace = <<>>
    /\ w_result = Unjudged

RotateStep(q, d) ==
    /\ \E p \in Programs : IsPrefix(Append(r_trace, <<q, d>>), p)
    /\ r_board' = rotate(r_board, q, d)
    /\ r_trace' = Append(r_trace, <<q, d>>)
    /\ UNCHANGED <<r_orig, w_result, game_vars>>

NextRotate == \E q \in blocks, d \in RotateDirections : RotateStep(q, d)

SpecRotate == InitRotate /\ [][NextRotate]_vars

(***************************************************************************)
(* winner() on its own, as the unit tests drive it: a board is drawn,      *)
(* winner is called on it (Judge), and the boards the tests turn are       *)
(* turned by rotate at most MaxTurns times and judged again.  The boards   *)
(* drawn are the tests' fixtures; every assignment of no marker, White or  *)
(* Black to the cells of one row, column or diagonal; a run of five or six *)
(* cells for each player on two lines; and full boards, a quilt that holds *)
(* no line with the above laid over it.                                    *)
(***************************************************************************)
MaxTurns == 1

Row(y) == [i \in 1 .. 6 |-> Position(i - 1, y)]

Col(x) == [i \in 1 .. 6 |-> Position(x, i - 1)]

Diagonal(origin, dy, n) ==
    [i \in 1 .. n |-> Position(origin[1] + i - 1, origin[2] + dy * (i - 1))]

Diagonals ==
    {Diagonal(Position(0, 0), 1, 6), Diagonal(Position(1, 0), 1, 5),
     Diagonal(Position(0, 1), 1, 5), Diagonal(Position(0, 5), -1, 6),
     Diagonal(Position(0, 4), -1, 5), Diagonal(Position(1, 5), -1, 5)}

ShortDiagonals ==
    {Diagonal(Position(2, 0), 1, 4), Diagonal(Position(0, 2), 1, 4),
     Diagonal(Position(0, 3), -1, 4), Diagonal(Position(2, 5), -1, 4)}

Lines == {Row(y) : y \in 0 .. 5} \cup {Col(x) : x \in 0 .. 5} \cup Diagonals

Cells(line) == {line[i] : i \in DOMAIN line}

\* The board that holds owners[i] on line[i], nothing where it is NoPlayer.
LineBoard(line, owners) ==
    [pos \in {line[i] : i \in {j \in DOMAIN line : owners[j] # NoPlayer}} |->
        owners[CHOOSE i \in DOMAIN line : line[i] = pos]]

LineBoards ==
    UNION {{LineBoard(line, owners) :
               owners \in [DOMAIN line -> {NoPlayer, players[1], players[2]}]} :
           line \in Lines \cup ShortDiagonals}

Runs ==
    UNION {{{line[i] : i \in sn[1] .. sn[1] + sn[2] - 1} :
               sn \in {t \in (1 .. 2) \X (5 .. 6) :
                          t[1] + t[2] - 1 <= Len(line)}} :
           line \in Lines}

TwoRunBoards ==
    {[pos \in a \cup b |-> IF pos \in a THEN players[1] ELSE players[2]] :
        <<a, b>> \in {r \in Runs \X Runs : r[1] \cap r[2] = {}}}

Quilt(pos) ==
    IF (pos[1] + 2 * pos[2]) % 4 < 2 THEN players[1] ELSE players[2]

Full(b) ==
    [pos \in Positions |-> IF pos \in DOMAIN b THEN b[pos] ELSE Quilt(pos)]

FullBoards ==
    {Full(b) : b \in TwoRunBoards \cup {EmptyBoard}
                   \cup {[pos \in r |-> p] : r \in Runs, p \in {players[1], players[2]}}}

TurnBoards == Fixtures \cup TwoRunBoards

InitWinner ==
    /\ InitGame
    /\ r_orig \in Fixtures \cup LineBoards \cup TwoRunBoards \cup FullBoards
    /\ r_board = r_orig
    /\ r_trace = <<>>
    /\ w_result = Unjudged

Judge ==
    /\ w_result = Unjudged
    /\ w_result' = winner(r_board, players)
    /\ UNCHANGED <<r_orig, r_board, r_trace, game_vars>>

Turn(q, d) ==
    /\ r_orig \in TurnBoards
    /\ Len(r_trace) < MaxTurns
    /\ r_board' = rotate(r_board, q, d)
    /\ r_trace' = Append(r_trace, <<q, d>>)
    /\ w_result' = Unjudged
    /\ UNCHANGED <<r_orig, game_vars>>

NextWinner ==
    \/ Judge
    \/ \E q \in blocks, d \in RotateDirections : Turn(q, d)

SpecWinner == InitWinner /\ [][NextWinner]_vars

(***************************************************************************)
(* Properties.                                                             *)
(***************************************************************************)
Posted(name) == \E i \in DOMAIN posted : posted[i] = name

Size(b) == Cardinality(DOMAIN b)

PhaseEdges ==
    {<<STATE_PREPARING, STATE_MOVE>>, <<STATE_MOVE, STATE_SELECT>>,
     <<STATE_SELECT, STATE_ROTATE>>, <<STATE_ROTATE, STATE_MOVE>>,
     <<STATE_MOVE, STATE_FINISHED>>, <<STATE_ROTATE, STATE_FINISHED>>}

\* C1: a select confirmed in the move phase on an occupied cell leaves the
\* board, the phase, the current player and the move counter as they were,
\* sets the message to the invalid-move message and leaves the cell cursor
\* active.
C1_InvalidMoveRejected ==
    [][(/\ state = STATE_MOVE
        /\ position_cursor.state = STATE_ACTIVE
        /\ position_cursor.position \in DOMAIN board
        /\ RequestSelect)
       => /\ board' = board
          /\ state' = STATE_MOVE
          /\ current_player' = current_player
          /\ move_count' = move_count
          /\ message' = "Invalid move"
          /\ position_cursor'.state = STATE_ACTIVE]_vars

\* A rejected placement has just been dispatched on a board with markers.
C1_Witness ==
    /\ state = STATE_MOVE
    /\ message = "Invalid move"
    /\ Posted("SelectPositionCursorEvent")
    /\ position_cursor.state = STATE_ACTIVE
    /\ Size(board) >= 2

\* C2: one input changes the phase only along preparing -> move,
\* move -> selection, selection -> rotation, rotation -> move,
\* move -> finished and rotation -> finished; the game starts in preparing,
\* so without a win or tie the phases are preparing and then the cycle
\* move, selection, rotation.
C2_PhaseOrdering ==
    /\ state = STATE_PREPARING
    /\ [][state' # state => <<state, state'>> \in PhaseEdges]_vars

\* The cycle has been walked twice and a third rotation is awaited.
C2_Witness ==
    /\ state = STATE_ROTATE
    /\ move_count = 2

\* C3: once the game has left preparing, the phase is finished exactly when
\* winner(board, players) is not None.
C3_FinishedIffWinner ==
    state # STATE_PREPARING =>
        (state = STATE_FINISHED <=> winner(board, players) # NoPlayer)

\* A game that a rotation has finished.
C3_Witness ==
    /\ state = STATE_FINISHED
    /\ Posted("DirectionCursorSelectEvent")
    /\ winner(board, players) # NoPlayer

\* C4: in the finished phase no input changes the phase, the board, the
\* current player, the move counter, the message or a cursor.
C4_FinishedTerminal ==
    [][state = STATE_FINISHED =>
          UNCHANGED <<state, board, current_player, move_count, message,
                      block_cursor, position_cursor, direction_cursor>>]_vars

\* A move request has been dispatched in the finished phase while the block
\* cursor, placed by the placement that ended the game, is still active.
C4_Witness ==
    /\ state = STATE_FINISHED
    /\ posted = <<"RequestMoveEvent">>
    /\ block_cursor.state = STATE_ACTIVE

\* C5: the board has as many entries as placements were committed (the move
\* counter in preparing and move, one more in selection, rotation and
\* finished), all of them cells of the 6x6 grid and never more than 36; a
\* committed placement adds one entry owned by the current player and
\* changes no other, and a rotation keeps the number of entries.
C5_BoardConservation ==
    /\ [](/\ Size(board) =
               IF state \in {STATE_PREPARING, STATE_MOVE}
               THEN move_count
               ELSE move_count + 1
          /\ DOMAIN board \subseteq Positions
          /\ Size(board) <= 36)
    /\ [][/\ (state = STATE_MOVE /\ state' \in {STATE_SELECT, STATE_FINISHED})
             => \E pos \in Positions \ DOMAIN board :
                   board' = set_item(board, pos, current_player)
          /\ state = STATE_ROTATE => Size(board') = Size(board)]_vars

\* Nine turns are complete and a rotation has carried a marker out of the
\* two rows in which markers are placed.
C5_Witness ==
    /\ state = STATE_MOVE
    /\ move_count = 9
    /\ Size(board) = 9
    /\ \E pos \in DOMAIN board : pos[2] \notin {1, 2}

\* C6: a select confirmed in the rotation phase with a direction chosen
\* replaces the board by rotate(board, the block cursor's block, the
\* direction cursor's direction), the block being the one the block cursor
\* held when the selection phase ended; if winner() of the new board is not
\* None the phase becomes finished and player and move counter stay,
\* otherwise the phase becomes move, the player becomes the other player
\* and the move counter grows by one.
C6_RotationStep ==
    [][/\ (/\ state = STATE_ROTATE
           /\ direction_cursor.direction \in RotateDirections
           /\ RequestSelect)
          => /\ board' = rotate(board, block_cursor.block,
                                direction_cursor.direction)
             /\ IF winner(board', players) # NoPlayer
                THEN /\ state' = STATE_FINISHED
                     /\ current_player' = current_player
                     /\ move_count' = move_count
                ELSE /\ state' = STATE_MOVE
                     /\ current_player' = other_player(current_player)
                     /\ move_count' = move_count + 1
       /\ (state \in {STATE_SELECT, STATE_ROTATE} /\ state' = STATE_ROTATE)
          => block_cursor'.block = block_cursor.block]_vars

\* A rotation to the right of block 1 has moved markers and finished the
\* game.
C6_Witness ==
    /\ state = STATE_FINISHED
    /\ Posted("DirectionCursorSelectEvent")
    /\ block_cursor.block = 1
    /\ direction_cursor.direction = DIRECTION_RIGHT
    /\ \E pos \in DOMAIN board : pos[2] = 0

\* C7: the current player changes only on the step from rotation to move,
\* where it becomes the other player, and every such step changes it; in
\* the move phase the current player is the first player exactly when the
\* move counter is even.
C7_PlayerAlternates ==
    /\ [](state = STATE_MOVE =>
             (current_player = players[1] <=> move_count % 2 = 0))
    /\ [][/\ current_player' # current_player
             => (state = STATE_ROTATE /\ state' = STATE_MOVE)
          /\ (state = STATE_ROTATE /\ state' = STATE_MOVE)
             => /\ current_player' # current_player
                /\ current_player' \in {players[1], players[2]}]_vars

\* The second player is to move for the second time.
C7_Witness ==
    /\ state = STATE_MOVE
    /\ move_count = 3
    /\ current_player = players[2]

\* C8: when the placement that was just committed ends the game, no
\* block-selection notification was posted for it and no listener acted on
\* one (the block cursor was not placed).
C8_PlacementWinShortCircuits ==
    (state = STATE_FINISHED /\ Posted("SelectPositionCursorEvent"))
        => /\ ~ Posted("GameBlockSelectionUIEvent")
           /\ ~ Posted("BlockCursorPlaceEvent")

\* C9: four quarter-turns of one block in one direction give back the
\* board they started from.
C9_FourQuarterTurns ==
    \A q \in blocks, d \in RotateDirections :
        r_trace = Four(q, d) => r_board = r_orig

\* Block 1 has been turned right four times with a marker on its ring.
C9_Witness ==
    /\ r_trace = Four(1, DIRECTION_RIGHT)
    /\ rotate(r_orig, 1, DIRECTION_RIGHT) # r_orig

\* C10: a quarter-turn followed by the opposite quarter-turn of the same
\* block gives back the board, in both orders, and so does turning every
\* block right in turn and then every block left in turn.
C10_LeftInverseOfRight ==
    /\ \A q \in blocks, d \in RotateDirections :
          r_trace = Inverse(q, d) => r_board = r_orig
    /\ r_trace = AllBlocksAndBack => r_board = r_orig

\* The four-corners board after every block went right and back left.
C10_Witness ==
    /\ r_trace = AllBlocksAndBack
    /\ r_orig = corners_board
    /\ r_board = r_orig

Count(b, player) == Cardinality({pos \in DOMAIN b : b[pos] = player})

Same(b1, b2, pos) ==
    /\ pos \in DOMAIN b1 <=> pos \in DOMAIN b2
    /\ pos \in DOMAIN b1 => b1[pos] = b2[pos]

Centre(q) == Position(1 + 3 * (q % 2), 1 + 3 * (q \div 2))

\* The cell of the block of pos that lies a clockwise quarter-turn further:
\* local coordinate (lx, ly) goes to (2 - ly, lx).
Clockwise(pos) ==
    LET q == block_for_position(pos)
        l == position_in_block(pos, q)
    IN  Position(pos[1] - l[1] + (2 - l[2]), pos[2] - l[2] + l[1])

\* C11: every call of rotate gives a board with as many occupied cells as
\* the board it was given and as many cells of each player: no entry is
\* dropped, duplicated or overwritten.
C11_RotateConservesMarkers ==
    [][(r_board' # r_board \/ r_trace' # r_trace) =>
          /\ Size(r_board') = Size(r_board)
          /\ \A i \in 1 .. 2 :
                Count(r_board', players[i]) = Count(r_board, players[i])]_vars

\* Block 0 of the two-vertical-stripes board, nine markers, has been turned
\* left.
C11_Witness ==
    /\ r_trace = <<<<0, DIRECTION_LEFT>>>>
    /\ r_orig = vertical_stripes_board
    /\ r_board # r_orig
    /\ Size(r_board) = 12

\* C12: a call of rotate on block q leaves every cell outside the 3x3
\* footprint of q, and the centre cell of q, with the occupancy and the
\* owner it had.
C12_RotateFrame ==
    [][\A q \in blocks, d \in RotateDirections :
          r_trace' = Append(r_trace, <<q, d>>) =>
              \A pos \in Positions :
                  (block_for_position(pos) # q \/ pos = Centre(q)) =>
                      Same(r_board, r_board', pos)]_vars

\* Block 2 of the two-vertical-stripes board has been turned right: its
\* ring moved, its centre (1,4) and the cells of block 0 did not.
C12_Witness ==
    /\ r_trace = <<<<2, DIRECTION_RIGHT>>>>
    /\ r_orig = vertical_stripes_board
    /\ r_board # r_orig
    /\ Centre(2) \in DOMAIN r_board

\* C13: DIRECTION_RIGHT is the clockwise quarter-turn: the table of block q
\* pairs every cell of q with the cell at local coordinate (2 - ly, lx), and
\* a call of rotate to the right puts the owner of every occupied cell of q
\* there.
C13_RightIsClockwise ==
    /\ [][\A q \in blocks :
              r_trace' = Append(r_trace, <<q, DIRECTION_RIGHT>>) =>
                  \A pos \in DOMAIN r_board :
                      block_for_position(pos) = q =>
                          /\ Clockwise(pos) \in DOMAIN r_board'
                          /\ r_board'[Clockwise(pos)] = r_board[pos]]_vars
    /\ \A q \in blocks :
          LET rotation == rotation_table(q, DIRECTION_RIGHT)
          IN  {rotation[i] : i \in DOMAIN rotation}
                  = {<<pos, Clockwise(pos)>> :
                        pos \in {c \in Positions : block_for_position(c) = q}}

\* Block 1 of the two-diagonals board has been turned right: the marker
\* of its south-west corner (3,2) is now on its north-west corner (3,0).
C13_Witness ==
    /\ r_trace = <<<<1, DIRECTION_RIGHT>>>>
    /\ r_orig = diagonal_stripes_board
    /\ Position(3, 0) \in DOMAIN r_board
    /\ r_board[Position(3, 0)] = r_orig[Position(3, 2)]

\* The run rule: five cells in a row on the line, all of the player.
HasRun(b, line, player) ==
    \E s \in 1 .. Len(line) - 4 :
        \A i \in s .. s + 4 : owned(b, line[i], player)

HasAnyRun(b, player) == \E line \in Lines : HasRun(b, line, player)

Judged == w_result # Unjudged

\* C14: winner called on a board of fewer than 36 entries on which both
\* players have five in a row returns the tie Player(None, None); the two
\* stripe fixtures and the two-diagonals fixture are such boards.
C14_DoubleWinIsTie ==
    Judged =>
        /\ (Size(r_board) < 36 /\ HasAnyRun(r_board, players[1])
                /\ HasAnyRun(r_board, players[2])) => w_result = TiePlayer
        /\ r_board \in {vertical_stripes_board, horizontal_stripes_board,
                         diagonal_stripes_board} => w_result = TiePlayer

\* winner has been called on the two-diagonals fixture of 11 cells.
C14_Witness ==
    /\ Judged
    /\ r_trace = <<>>
    /\ r_board = diagonal_stripes_board
    /\ Size(r_board) = 11
    /\ w_result = TiePlayer

\* C15: winner called on a board of fewer than 36 entries on which exactly
\* one player has five in a row returns that player; the two-diagonals
\* fixture with block 1 turned right is won by the first player.
C15_SoleWinner ==
    Judged =>
        /\ \A i \in 1 .. 2 :
              (Size(r_board) < 36 /\ HasAnyRun(r_board, players[i])
                  /\ ~ HasAnyRun(r_board, players[3 - i]))
                      => w_result = players[i]
        /\ (r_orig = diagonal_stripes_board
                /\ r_trace = <<<<1, DIRECTION_RIGHT>>>>)
                    => w_result = players[1]

\* winner has been called on the two-diagonals fixture after block 1 was
\* turned right: the second player's line is broken.
C15_Witness ==
    /\ Judged
    /\ r_orig = diagonal_stripes_board
    /\ r_trace = <<<<1, DIRECTION_RIGHT>>>>
    /\ ~ HasAnyRun(r_board, players[2])
    /\ w_result = players[1]

\* C16: winner called on a board of fewer than 36 entries on which neither
\* player has five in a row returns None; the four-corners fixture and the
\* stripe fixtures with one block turned right are such boards.
C16_NoLineNoOutcome ==
    Judged =>
        /\ (Size(r_board) < 36 /\ ~ HasAnyRun(r_board, players[1])
                /\ ~ HasAnyRun(r_board, players[2])) => w_result = NoPlayer
        /\ r_board = corners_board => w_result = NoPlayer
        /\ (r_orig = vertical_stripes_board
                /\ r_trace = <<<<2, DIRECTION_RIGHT>>>>)
                    => w_result = NoPlayer
        /\ (r_orig = horizontal_stripes_board
                /\ r_trace = <<<<1, DIRECTION_RIGHT>>>>)
                    => w_result = NoPlayer

\* winner has been called on the two-vertical-stripes fixture after block 2
\* was turned right.
C16_Witness ==
    /\ Judged
    /\ r_orig = vertical_stripes_board
    /\ r_trace = <<<<2, DIRECTION_RIGHT>>>>
    /\ Size(r_board) = 12
    /\ w_result = NoPlayer

\* C17: winner called on a board of 36 entries returns the tie, whatever
\* lines the board holds.
C17_FullBoardIsTie ==
    (Judged /\ Size(r_board) = 36) => w_result = TiePlayer

\* winner has been called on a full board on which only the first player
\* has five in a row.
C17_Witness ==
    /\ Judged
    /\ Size(r_board) = 36
    /\ HasAnyRun(r_board, players[1])
    /\ ~ HasAnyRun(r_board, players[2])
    /\ w_result = TiePlayer

\* C18: for each player, check_rows, check_cols and check_diagonals report
\* a line exactly when some row, some column or some diagonal of five or
\* six cells holds five cells in a row of that player.
C18_ScanEqualsRunRule ==
    \A i \in 1 .. 2 :
        /\ check_rows(r_board, players[i])
              <=> \E y \in 0 .. 5 : HasRun(r_board, Row(y), players[i])
        /\ check_cols(r_board, players[i])
              <=> \E x \in 0 .. 5 : HasRun(r_board, Col(x), players[i])
        /\ check_diagonals(r_board, players[i])
              <=> \E line \in Diagonals : HasRun(r_board, line, players[i])

\* winner has been called on the board whose row 0 holds five markers of
\* the first player followed by one of the second: the scan ends on a miss.
C18_Witness ==
    /\ Judged
    /\ r_board = LineBoard(Row(0), <<players[1], players[1], players[1],
                                     players[1], players[1], players[2]>>)
    /\ check_rows(r_board, players[1])
    /\ w_result = players[1]

\* C19: after every input, the block cursor is active only in the
\* block-selection phase.
C19_BlockCursorActiveOnlyInSelect ==
    block_cursor.state = STATE_ACTIVE => state = STATE_SELECT

\* C20: after every input, the cell cursor is active exactly in the move
\* phase and the direction cursor exactly in the rotation phase.
C20_CursorsFollowPhase ==
    /\ position_cursor.state = STATE_ACTIVE <=> state = STATE_MOVE
    /\ direction_cursor.state = STATE_ACTIVE <=> state = STATE_ROTATE

\* A select was requested in the rotation phase of a later turn before a
\* direction was chosen: it is refused and the direction cursor stays
\* active, the cell cursor inactive.
C20_Witness ==
    /\ state = STATE_ROTATE
    /\ move_count >= 1
    /\ posted = <<"RequestSelectEvent", "RequestDirectionCursorSelectEvent">>
    /\ direction_cursor.direction = None
    /\ direction_cursor.state = STATE_ACTIVE
    /\ position_cursor.state = STATE_INACTIVE

\* The objects before a dispatch, and after the dispatch of an event.
Fresh == [Game EXCEPT !.posted = <<>>, !.max_active = 0]

After(event) == post(Fresh, event)

\* The objects without the trace of the dispatch.
Core(g) == [g EXCEPT !.posted = <<>>, !.max_active = 0]

Traced(g, name) == \E i \in DOMAIN g.posted : g.posted[i] = name

\* C21: the rotation phase is entered with the direction unset and the
\* direction cursor active; a select requested while the direction is
\* unset changes nothing and posts no DirectionCursorSelectEvent; the
\* rotation phase is left with a direction of DIRECTION_LEFT or
\* DIRECTION_RIGHT and a block of 0..3, the arguments of rotate.
C21_DirectionChosenBeforeConfirm ==
    /\ []((state = STATE_ROTATE /\ direction_cursor.direction = None) =>
             LET g == After(Event("RequestSelectEvent", None))
             IN  /\ Core(g) = Fresh
                 /\ ~ Traced(g, "DirectionCursorSelectEvent"))
    /\ [][(state # STATE_ROTATE /\ state' = STATE_ROTATE) =>
              /\ direction_cursor'.direction = None
              /\ direction_cursor'.state = STATE_ACTIVE]_vars
    /\ [][(state = STATE_ROTATE /\ state' # STATE_ROTATE) =>
              /\ direction_cursor.direction \in RotateDirections
              /\ block_cursor.block \in blocks]_vars

\* In the rotation phase of the third turn, a select was requested before
\* any direction was chosen.
C21_Witness ==
    /\ state = STATE_ROTATE
    /\ move_count = 2
    /\ direction_cursor.direction = None
    /\ posted = <<"RequestSelectEvent", "RequestDirectionCursorSelectEvent">>

\* The requests to a cursor among the events of a dispatch.
CursorRequests(g) ==
    {g.posted[i] : i \in DOMAIN g.posted} \cap
        {"RequestPositionCursorMoveEvent", "RequestPositionCursorSelectEvent",
         "RequestBlockCursorMoveEvent", "RequestBlockCursorSelectEvent",
         "RequestDirectionCursorMoveEvent",
         "RequestDirectionCursorSelectEvent"}

\* The one cursor request a phase hands a raw request on as, if any.
RoutedAs(phase, position_request, block_request, direction_request) ==
    CASE phase = STATE_MOVE -> {position_request}
      [] phase = STATE_SELECT -> {block_request}
      [] phase = STATE_ROTATE -> {direction_request}
      [] OTHER -> {}

\* C22: in every state, a move request or a select request is handed to
\* the cell cursor in the move phase, to the block cursor in the
\* block-selection phase, to the direction cursor in the rotation phase and
\* to no cursor while preparing or finished; a move request changes
\* neither the phase, the board, the current player nor the two cursors
\* that do not belong to the phase.
C22_PhaseRouting ==
    /\ \A d \in Directions :
          LET g == After(Event("RequestMoveEvent", d))
          IN  /\ CursorRequests(g) =
                     RoutedAs(state, "RequestPositionCursorMoveEvent",
                              "RequestBlockCursorMoveEvent",
                              "RequestDirectionCursorMoveEvent")
              /\ g.state = state
              /\ g.board = board
              /\ g.current_player = current_player
              /\ state # STATE_MOVE => g.position_cursor = position_cursor
              /\ state # STATE_SELECT => g.block_cursor = block_cursor
              /\ state # STATE_ROTATE => g.direction_cursor = direction_cursor
              /\ state \in {STATE_PREPARING, STATE_FINISHED} =>
                     Core(g) = Fresh
    /\ LET g == After(Event("RequestSelectEvent", None))
       IN  /\ CursorRequests(g) =
                  RoutedAs(state, "RequestPositionCursorSelectEvent",
                           "RequestBlockCursorSelectEvent",
                           "RequestDirectionCursorSelectEvent")
           /\ state \in {STATE_PREPARING, STATE_FINISHED} => Core(g) = Fresh

\* A move request in the block-selection phase has moved the block cursor
\* from block 0 to block 1; the cell cursor and the direction cursor are
\* inactive.
C22_Witness ==
    /\ state = STATE_SELECT
    /\ posted = <<"RequestMoveEvent", "RequestBlockCursorMoveEvent",
                  "BlockCursorMoveEvent">>
    /\ block_cursor.block = 1
    /\ position_cursor.state = STATE_INACTIVE
    /\ direction_cursor.state = STATE_INACTIVE

\* C23: a tick while preparing starts the game: the move phase, an empty
\* board, a BoardBuiltEvent, the cell cursor active on (2,2) for the first
\* player, move counter 0; a tick in any other phase changes nothing and
\* posts nothing.
C23_TickOnlyStarts ==
    /\ [](LET g == After(Event("CycleEvent", None))
          IN  IF state = STATE_PREPARING
              THEN /\ g.state = STATE_MOVE
                   /\ g.board = EmptyBoard
                   /\ Traced(g, "BoardBuiltEvent")
                   /\ g.position_cursor =
                          [position |-> <<2, 2>>, player |-> players[1],
                           state |-> STATE_ACTIVE]
                   /\ g.move_count = 0
              ELSE Core(g) = Fresh /\ g.posted = <<>>)
    /\ [][(state = STATE_PREPARING /\ state' # STATE_PREPARING) =>
              /\ state' = STATE_MOVE
              /\ board' = EmptyBoard
              /\ position_cursor'.state = STATE_ACTIVE
              /\ position_cursor'.position = <<2, 2>>
              /\ move_count' = 0]_vars

\* The first tick has been dispatched.
C23_Witness ==
    /\ state = STATE_MOVE
    /\ move_count = 0
    /\ board = EmptyBoard
    /\ posted[1] = "BoardBuiltEvent"
    /\ position_cursor.position = start_position
    /\ position_cursor.player = players[1]

\* The cell one step from pos in direction d, on the grid or not.
Target(pos, d) ==
    CASE d = DIRECTION_UP -> <<pos[1], pos[2] - 1>>
      [] d = DIRECTION_DOWN -> <<pos[1], pos[2] + 1>>
      [] d = DIRECTION_LEFT -> <<pos[1] - 1, pos[2]>>
      [] d = DIRECTION_RIGHT -> <<pos[1] + 1, pos[2]>>

\* No block lies next to block q in direction d.
NoWay(q, d) ==
    \/ d = DIRECTION_UP /\ q \in {0, 1}
    \/ d = DIRECTION_DOWN /\ q \in {2, 3}
    \/ d = DIRECTION_LEFT /\ q \in {0, 2}
    \/ d = DIRECTION_RIGHT /\ q \in {1, 3}

\* C24: in every state, a move of the active cell cursor towards a cell
\* off the grid, a move of the active block cursor where no block lies,
\* and a move or a select handed to an inactive cursor change nothing and
\* post nothing; the cell of a placed cell cursor is on the grid and the
\* block of a placed block cursor is one of 0..3.
C24_IllegalRequestsIgnored ==
    /\ \A d \in Directions :
          /\ (position_cursor.state = STATE_ACTIVE
                 /\ Target(position_cursor.position, d) \notin Positions) =>
                 /\ PositionCursor_move(Fresh, d) = Fresh
                 /\ state = STATE_MOVE =>
                        Core(After(Event("RequestMoveEvent", d))) = Fresh
          /\ (block_cursor.state = STATE_ACTIVE
                 /\ NoWay(block_cursor.block, d)) =>
                 /\ BlockCursor_move(Fresh, d) = Fresh
                 /\ state = STATE_SELECT =>
                        Core(After(Event("RequestMoveEvent", d))) = Fresh
          \* the same with the active cursor on any cell, on any block
          /\ position_cursor.state = STATE_ACTIVE =>
                 \A pos \in Positions :
                     Target(pos, d) \notin Positions =>
                         LET g == [Fresh EXCEPT !.position_cursor.position = pos]
                         IN  PositionCursor_move(g, d) = g
          /\ block_cursor.state = STATE_ACTIVE =>
                 \A q \in blocks :
                     NoWay(q, d) =>
                         LET g == [Fresh EXCEPT !.block_cursor.block = q]
                         IN  BlockCursor_move(g, d) = g
          /\ position_cursor.state = STATE_INACTIVE =>
                 PositionCursor_move(Fresh, d) = Fresh
          /\ block_cursor.state = STATE_INACTIVE =>
                 BlockCursor_move(Fresh, d) = Fresh
          /\ direction_cursor.state = STATE_INACTIVE =>
                 DirectionCursor_move(Fresh, d) = Fresh
    /\ position_cursor.state = STATE_INACTIVE =>
           PositionCursor_select(Fresh) = Fresh
    /\ block_cursor.state = STATE_INACTIVE => BlockCursor_select(Fresh) = Fresh
    /\ direction_cursor.state = STATE_INACTIVE =>
           DirectionCursor_select(Fresh) = Fresh
    /\ position_cursor.position # NoPosition =>
           position_cursor.position \in (0 .. 5) \X (0 .. 5)
    /\ block_cursor.block # None => block_cursor.block \in 0 .. 3

\* In the block-selection phase a move was requested where block 1 has no
\* neighbour: nothing but the two requests was posted.
C24_Witness ==
    /\ state = STATE_SELECT
    /\ block_cursor.block = 1
    /\ block_cursor.state = STATE_ACTIVE
    /\ posted = <<"RequestMoveEvent", "RequestBlockCursorMoveEvent">>

\* C25: in every state, place(player) on an inactive cursor makes it
\* active for that player on the start value (cell (2,2), block 0, no
\* direction) and posts its place event, and place on an active cursor
\* changes nothing and posts nothing; every entry into the move phase
\* (a rejected move included), the block-selection phase and the rotation
\* phase leaves the phase's cursor on the start value, owned by the
\* current player.
C25_PlaceResetsSelection ==
    /\ [](\A p \in {players[1], players[2]} :
             /\ LET g == PositionCursor_place(Fresh, p)
                IN  IF position_cursor.state = STATE_ACTIVE
                    THEN g = Fresh
                    ELSE /\ g.position_cursor =
                                [position |-> <<2, 2>>, player |-> p,
                                 state |-> STATE_ACTIVE]
                         /\ Traced(g, "PositionCursorPlaceEvent")
             /\ LET g == BlockCursor_place(Fresh, p)
                IN  IF block_cursor.state = STATE_ACTIVE
                    THEN g = Fresh
                    ELSE /\ g.block_cursor =
                                [block |-> 0, player |-> p,
                                 state |-> STATE_ACTIVE]
                         /\ Traced(g, "BlockCursorPlaceEvent")
             /\ LET g == DirectionCursor_place(Fresh, p)
                IN  IF direction_cursor.state = STATE_ACTIVE
                    THEN g = Fresh
                    ELSE /\ g.direction_cursor =
                                [direction |-> None, player |-> p,
                                 state |-> STATE_ACTIVE]
                         /\ Traced(g, "DirectionCursorPlaceEvent"))
    /\ [][(state' = STATE_MOVE
              /\ (state # STATE_MOVE
                     \/ \E i \in DOMAIN posted' :
                            posted'[i] = "SelectPositionCursorEvent")) =>
              position_cursor' = [position |-> <<2, 2>>,
                                  player |-> current_player',
                                  state |-> STATE_ACTIVE]]_vars
    /\ [][(state # STATE_SELECT /\ state' = STATE_SELECT) =>
              block_cursor' = [block |-> 0, player |-> current_player',
                               state |-> STATE_ACTIVE]]_vars
    /\ [][(state # STATE_ROTATE /\ state' = STATE_ROTATE) =>
              direction_cursor' = [direction |-> None,
                                   player |-> current_player',
                                   state |-> STATE_ACTIVE]]_vars

\* The second player has just placed a marker in a later turn: the block
\* cursor, left on block 3 by the turn before, is back on block 0 and is
\* the second player's.
C25_Witness ==
    /\ state = STATE_SELECT
    /\ move_count >= 1
    /\ current_player = players[2]
    /\ Posted("BlockCursorPlaceEvent")
    /\ block_cursor = [block |-> start_block, player |-> players[2],
                       state |-> STATE_ACTIVE]

\* C26: two quarter-turns of a block to the right give the board that two
\* quarter-turns to the left give, for one block and for all four blocks
\* in turn; on the four-corners board, every block turned one notch right,
\* two notches right or two notches left leaves no corner cell occupied.
C26_HalfTurnAgreement ==
    /\ \A q \in blocks :
          r_trace = <<<<q, DIRECTION_RIGHT>>, <<q, DIRECTION_RIGHT>>>> =>
              r_board = Run(r_orig, <<<<q, DIRECTION_LEFT>>,
                                      <<q, DIRECTION_LEFT>>>>)
    /\ r_trace = TwoNotchesEach(DIRECTION_RIGHT) =>
           r_board = Run(r_orig, TwoNotchesEach(DIRECTION_LEFT))
    /\ (r_orig = corners_board
           /\ r_trace \in {SubSeq(AllBlocksAndBack, 1, 4),
                            TwoNotchesEach(DIRECTION_RIGHT),
                            TwoNotchesEach(DIRECTION_LEFT)}) =>
           /\ \A i \in 1 .. 4 : corners[i] \notin DOMAIN r_board
           /\ r_board # r_orig

\* Every block of the four-corners board has been turned two notches to
\* the right.
C26_Witness ==
    /\ r_orig = corners_board
    /\ r_trace = TwoNotchesEach(DIRECTION_RIGHT)
    /\ r_board = Run(r_orig, TwoNotchesEach(DIRECTION_LEFT))
    /\ Size(r_board) = 4

\* C27: in every state, hide() on an active cursor changes nothing and
\* posts nothing, and hide() on an inactive cursor leaves everything as it
\* is and posts the cursor's hide event; a cursor that goes from active to
\* inactive does so in a dispatch that posts its select event.
C27_HideGuard ==
    /\ [](/\ LET g == BlockCursor_hide(Fresh)
              IN  IF block_cursor.state = STATE_ACTIVE
                  THEN g = Fresh
                  ELSE Core(g) = Fresh /\ Traced(g, "BlockCursorHideEvent")
          /\ LET g == PositionCursor_hide(Fresh)
              IN  IF position_cursor.state = STATE_ACTIVE
                  THEN g = Fresh
                  ELSE Core(g) = Fresh /\ Traced(g, "PositionCursorHideEvent")
          /\ LET g == DirectionCursor_hide(Fresh)
              IN  IF direction_cursor.state = STATE_ACTIVE
                  THEN g = Fresh
                  ELSE Core(g) = Fresh
                          /\ Traced(g, "DirectionCursorHideEvent"))
    /\ [][/\ (block_cursor.state = STATE_ACTIVE
                 /\ block_cursor'.state = STATE_INACTIVE) =>
                 \E i \in DOMAIN posted' :
                     posted'[i] = "BlockCursorSelectEvent"
          /\ (position_cursor.state = STATE_ACTIVE
                 /\ position_cursor'.state = STATE_INACTIVE) =>
                 \E i \in DOMAIN posted' :
                     posted'[i] = "SelectPositionCursorEvent"
          /\ (direction_cursor.state = STATE_ACTIVE
                 /\ direction_cursor'.state = STATE_INACTIVE) =>
                 \E i \in DOMAIN posted' :
                     posted'[i] = "DirectionCursorSelectEvent"]_vars

\* The rotation phase has been entered: the block cursor, made inactive by
\* its select, was then told to hide and posted its hide event.
C27_Witness ==
    /\ state = STATE_ROTATE
    /\ Posted("BlockCursorSelectEvent")
    /\ Posted("BlockCursorHideEvent")
    /\ block_cursor.state = STATE_INACTIVE

\* C28: in every state in which the direction cursor is active, a move
\* to the left or to the right records that direction, a move up or down
\* leaves the recorded direction (chosen or unset) as it is, nothing else
\* changes, and a DirectionCursorMoveEvent is posted in all four cases;
\* the same holds for a move request dispatched in the rotation phase.
C28_DirectionCursorMove ==
    direction_cursor.state = STATE_ACTIVE =>
        \A d \in Directions :
            LET recorded == IF d \in {DIRECTION_LEFT, DIRECTION_RIGHT}
                            THEN d
                            ELSE direction_cursor.direction
                expected == [Fresh EXCEPT
                                !.direction_cursor.direction = recorded]
                g == DirectionCursor_move(Fresh, d)
                h == After(Event("RequestMoveEvent", d))
            IN  /\ Core(g) = expected
                /\ g.posted = <<"DirectionCursorMoveEvent">>
                /\ state = STATE_ROTATE =>
                       /\ Core(h) = expected
                       /\ Traced(h, "DirectionCursorMoveEvent")

\* In the rotation phase the direction cursor has recorded DIRECTION_RIGHT
\* on a move request.
C28_Witness ==
    /\ state = STATE_ROTATE
    /\ direction_cursor.direction = DIRECTION_RIGHT
    /\ direction_cursor.state = STATE_ACTIVE
    /\ posted = <<"RequestMoveEvent", "RequestDirectionCursorMoveEvent",
                  "DirectionCursorMoveEvent">>

\* C29: at most one of the three cursors is active, after every input and
\* at every call of post inside the dispatch of an input.
C29_AtMostOneCursorActive ==
    /\ active_cursors(Game) <= 1
    /\ max_active <= 1

\* The dispatch of a select in the block-selection phase: the block cursor
\* became inactive, then the direction cursor was placed, and one cursor at
\* most was active at each call of post.
C29_Witness ==
    /\ state = STATE_ROTATE
    /\ posted[1] = "RequestSelectEvent"
    /\ Posted("BlockCursorSelectEvent")
    /\ Posted("DirectionCursorPlaceEvent")
    /\ max_active = 1
    /\ direction_cursor.state = STATE_ACTIVE

\* How often the event called name occurs in the trace of a dispatch.
Times(trace, name) == Cardinality({i \in DOMAIN trace : trace[i] = name})

\* C30: the turn machine calls hide() only on a cursor that is inactive,
\* so that every GameBlockSelectionUIEvent is answered by one
\* PositionCursorHideEvent, every GameBlockRotationUIEvent by one
\* BlockCursorHideEvent and every GameMoveUIEvent by one
\* DirectionCursorHideEvent, and every entry into a phase (the first tick
\* and a rejected move included) posts exactly one of them.
C30_HideOnlyWhenInactive ==
    /\ [](/\ Times(posted, "PositionCursorHideEvent")
                = Times(posted, "GameBlockSelectionUIEvent")
          /\ Times(posted, "BlockCursorHideEvent")
                = Times(posted, "GameBlockRotationUIEvent")
          /\ Times(posted, "DirectionCursorHideEvent")
                = Times(posted, "GameMoveUIEvent")
          /\ Posted("SelectPositionCursorEvent") =>
                Times(posted, "GameMoveUIEvent")
                    + Times(posted, "GameBlockSelectionUIEvent") = 1)
    /\ [][/\ (state # STATE_SELECT /\ state' = STATE_SELECT) =>
                 Times(posted', "PositionCursorHideEvent") = 1
          /\ (state # STATE_ROTATE /\ state' = STATE_ROTATE) =>
                 Times(posted', "BlockCursorHideEvent") = 1
          /\ (state # STATE_MOVE /\ state' = STATE_MOVE) =>
                 Times(posted', "DirectionCursorHideEvent") = 1]_vars

\* A move was rejected: the GameMoveUIEvent that re-arms the cell cursor
\* told the inactive direction cursor to hide, once.
C30_Witness ==
    /\ state = STATE_MOVE
    /\ message = "Invalid move"
    /\ Posted("SelectPositionCursorEvent")
    /\ Times(posted, "GameMoveUIEvent") = 1
    /\ Times(posted, "DirectionCursorHideEvent") = 1
    /\ direction_cursor.state = STATE_INACTIVE

Commits(trace) ==
    Times(trace, "SelectPositionCursorEvent")
  + Times(trace, "BlockCursorSelectEvent")
  + Times(trace, "DirectionCursorSelectEvent")

\* C31: one RequestSelect input advances the turn by at most one phase
\* step: the phase stays or moves along one edge of the cycle, at most one
\* of the three select events is posted during the dispatch (one placement,
\* one block selection or one rotation), the board gains at most one
\* marker and the move counter grows by at most one, and the cursor the
\* step activates is not selected by the same input.
C31_OneCommitPerSelect ==
    [][RequestSelect
       => /\ state' = state \/ <<state, state'>> \in PhaseEdges
          /\ Commits(posted') <= 1
          /\ Size(board') <= Size(board) + 1
          /\ move_count' <= move_count + 1
          /\ state = STATE_MOVE
             => /\ Times(posted', "BlockCursorSelectEvent") = 0
                /\ Times(posted', "DirectionCursorSelectEvent") = 0
          /\ state = STATE_SELECT
             => /\ Times(posted', "DirectionCursorSelectEvent") = 0
                /\ Times(posted', "SelectPositionCursorEvent") = 0
          /\ state = STATE_ROTATE
             => /\ Times(posted', "SelectPositionCursorEvent") = 0
                /\ Times(posted', "BlockCursorSelectEvent") = 0]_vars

\* A placement has been committed: the block cursor it activated is still
\* waiting for its own select.
C31_Witness ==
    /\ state = STATE_SELECT
    /\ Commits(posted) = 1
    /\ Posted("SelectPositionCursorEvent")
    /\ Posted("BlockCursorPlaceEvent")
    /\ block_cursor.state = STATE_ACTIVE
    /\ Size(board) = move_count + 1
    /\ move_count >= 1

TieMessage == players[1] \o " - " \o players[2] \o " tie!"

\* C32: a game that finishes directly after a placement ends either as a
\* win for the player who placed (who then owns a line while the opponent
\* owns none) or as a tie on a full board of 36 entries; a win for the
\* opponent and a tie on a board that is not full are announced only by a
\* step out of the rotation phase.
C32_PlacementEndsForPlacer ==
    [][/\ (state = STATE_MOVE /\ state' = STATE_FINISHED)
          => \/ /\ Size(board') < 36
                /\ winner(board', players) = current_player
                /\ has_line(board', current_player)
                /\ ~ has_line(board', other_player(current_player))
                /\ message' = current_player \o " wins!"
             \/ /\ Size(board') = 36
                /\ winner(board', players) = TiePlayer
                /\ message' = TieMessage
       /\ (/\ state # STATE_FINISHED
           /\ state' = STATE_FINISHED
           /\ \/ message' = other_player(current_player) \o " wins!"
              \/ message' = TieMessage /\ Size(board') < 36)
          => state = STATE_ROTATE]_vars

\* The 36th marker has been placed and the game has ended as a tie on the
\* full board.
C32_Witness ==
    /\ state = STATE_FINISHED
    /\ Posted("SelectPositionCursorEvent")
    /\ Size(board) = 36
    /\ message = TieMessage
    /\ move_count = 35

InPlay == state \in {STATE_MOVE, STATE_SELECT, STATE_ROTATE}

\* A select that commits: a placement on an empty cell, a block, or a
\* chosen direction.
Confirm == EndgameSelect /\ state' # state

\* The players keep confirming for as long as the game is in play: either
\* confirms come again and again, or from some point on no input is
\* awaited any more.
FairPlay == []<><<Confirm>>_vars \/ <>[](~ InPlay)

\* C33: every game terminates.  The board is never full while a move, a
\* block selection or a rotation direction is awaited, so a move is awaited
\* only with an empty cell left; at most 36 placements are committed, and a
\* board of 36 markers is a finished game; and if the players keep
\* confirming a placement on an empty cell, a block and a chosen direction,
\* the phase eventually becomes finished.
C33_EveryGameTerminates ==
    /\ [](InPlay => Size(board) < 36)
    /\ [](state = STATE_MOVE => Positions \ DOMAIN board # {})
    /\ [](Size(board) <= 36 /\ move_count <= 35)
    /\ [](Size(board) = 36 => state = STATE_FINISHED)
    /\ FairPlay => <>(state = STATE_FINISHED)

\* Thirty-five full turns have been played without a line and the 36th
\* marker has ended the game: both players own 18 cells.
C33_Witness ==
    /\ state = STATE_FINISHED
    /\ move_count = 35
    /\ Count(board, players[1]) = 18
    /\ Count(board, players[2]) = 18
    /\ Traced(Game, "GameFinishedUIEvent")

====
